---- MODULE Spec2Model ----
(***************************************************************************)
(* Model of nonebot_plugin_markdown2img/renderer.py: the render pipeline   *)
(* (render_markdown_to_image_bytes with its adaptive height loop, its      *)
(* except/finally clauses and its temp screenshot file), the maintenance   *)
(* operation clean_up, and the remote image cache                          *)
(* (download_and_cache_image).                                             *)
(*                                                                         *)
(* Spec       one render call at a time, every input of the bounded sets   *)
(* SpecConc   two render calls of one process running concurrently         *)
(* SpecClean  one render call and a clean_up call beside it                *)
(* SpecCache  two concurrent resolvers of the image cache                  *)
(* SpecImages one pass of process_images_in_html over an HTML fragment     *)
(***************************************************************************)
EXTENDS Integers, Sequences, FiniteSets, TLC

(* ---------------------------------------------------------------------- *)
(* Program constants                                                       *)
(* ---------------------------------------------------------------------- *)
line_px == 20
code_block_px == 200
min_estimate == 800
max_height == 50000
margin_threshold == 120
loop_limit == 4
attempt_cap == 6
vertical_padding == 32
max_images == 3

(* ---------------------------------------------------------------------- *)
(* Bounds of the model                                                     *)
(* ---------------------------------------------------------------------- *)
\* the largest number of ``` markers in an input text
MaxTicks == 1
\* the calls of download_and_cache_image that all threads make together
MaxResolves == 3
\* the pieces in which a response body reaches the cache file
NumChunks == 2
\* the pieces of an HTML fragment
MaxItems == 4

Calls == {1, 2}
\* text objects a caller can pass; two calls may be handed the same object
TextObjs == {1, 2}
\* the threads that resolve image URLs
Resolvers == {1, 2}
\* len(markdown_text.split("\n")) of the inputs
LineCounts == {1, 60, 1250, 2500, 2600}
\* the same for the inputs of two concurrent calls
ConcLineCounts == {2500}
\* canvas_width of the inputs
Widths == {0, 800}
\* zoom of the inputs in halves: 1 is 0.5, 2 is 1.0, 4 is 2.0
Zooms == {1, 2, 4}
\* what the renderer may paint: the top of the content, and the margin under it
Tops == {0, 40}
Margins == {0, 120, 121}

None == "None"
\* no file under a name; a bounding box of None; no temp name or crop yet
NoFile == [exists |-> FALSE]
NoBBox == [found |-> FALSE]
NoName == << >>
NoCrop == [made |-> FALSE]

Max(a, b) == IF a >= b THEN a ELSE b
Min(a, b) == IF a <= b THEN a ELSE b

VARIABLES
  callers,        \* the calls of render_markdown_to_image_bytes that are made
  call,           \* per call: its arguments, locals and position
  disk,           \* TEMP_DIR: temp file name -> image stored, or NoFile
  dsf_supported,  \* "device_scale_factor" in init_signature.parameters
  cleaner,        \* the position of a clean_up() call, and the files it globbed
  cache,          \* IMAGE_CACHE_DIR: cache file name -> [data: chunks stored], or NoFile
  res,            \* per resolver thread: its download_and_cache_image calls
  proc            \* a call of process_images_in_html: its argument, locals and position

rvars == <<callers, call, disk, dsf_supported>>
cvars == <<cache, res, proc>>
vars == <<callers, call, disk, dsf_supported, cleaner, cache, res, proc>>

(* ---------------------------------------------------------------------- *)
(* Pure parts of render_markdown_to_image_bytes                            *)
(* ---------------------------------------------------------------------- *)

\* os.getpid(): every call of the model runs in the same process
Pid == 4242

\* id(markdown_text): the address of the object, one per live object
IdOf(obj) == 9000 + 8 * obj

TempName(obj) == <<"temp", Pid, IdOf(obj), "png">>

Names == { TempName(o) : o \in TextObjs }

SeedHeight(text_lines, code_blocks) ==
  Max(text_lines * line_px + code_blocks * code_block_px, min_estimate)

\* int(min(estimated_height * 2, max_height))
GrowDouble(h) == Min(h * 2, max_height)

\* int(min(estimated_height * 1.5, max_height))
GrowHalf(h) == Min((h * 3) \div 2, max_height)

\* the switch to 1.5 made one growth step late
GrowLateSwitch(attempts, h) == IF attempts < 4 THEN GrowDouble(h) ELSE GrowHalf(h)

Grow(attempts, h) == IF attempts < 3 THEN GrowDouble(h) ELSE GrowHalf(h)

\* the attempt counter left as it is
NextAttemptsStuck(attempts) == attempts

NextAttempts(attempts) == attempts + 1

\* the device scale the renderer is started with, in halves (2: none passed)
DeviceScale(zoom, supported) == IF zoom # 2 /\ supported THEN zoom ELSE 2

\* the zoom deferred to the post-processor whatever the renderer supports
PostScaleAlways(zoom, supported) == IF zoom # 2 THEN zoom ELSE 2

\* post_scale_factor, in halves (2: 1.0, nothing deferred)
PostScale(zoom, supported) == IF zoom # 2 /\ ~supported THEN zoom ELSE 2

\* pixels of a length under a scale given in halves: int(n * scale)
ScaledPx(n, scale) == (n * scale) \div 2

\* the images the renderer can produce for a viewport: the screenshot has the
\* viewport's size times the device scale, and its content lies within it
Images(w, h, scale) ==
  LET ih == ScaledPx(h, scale)
      iw == ScaledPx(w, scale)
  IN  { [height |-> ih, width |-> iw, bbox |-> NoBBox] }
      \cup { [height |-> ih, width |-> iw, bbox |-> [top |-> t, bottom |-> ih - m]] :
               t \in Tops, m \in Margins }

BottomMargin(img) == img.height - img.bbox.bottom

\* what a probe saw: the height asked for, the image's height, and whether it
\* found content and with which margin under it
Probed(h, img) ==
  [ asked  |-> h,
    height |-> img.height,
    found  |-> img.bbox # NoBBox,
    margin |-> IF img.bbox # NoBBox THEN BottomMargin(img) ELSE 0 ]

\* the margin compared with >= instead of >
ProbeStopsAtThreshold(img) ==
  \/ img.bbox = NoBBox
  \/ BottomMargin(img) >= margin_threshold
  \/ img.height >= max_height

\* the margin break left out
ProbeStopsNoMargin(img) ==
  \/ img.bbox = NoBBox
  \/ img.height >= max_height

\* the breaks inside "with Image.open(image_file) as probe"
ProbeStops(img) ==
  \/ img.bbox = NoBBox
  \/ BottomMargin(img) > margin_threshold
  \/ img.height >= max_height

\* the break on the attempt count alone
CapReachedAttemptsOnly(attempts, h) == attempts >= attempt_cap

\* if attempts >= 6 or estimated_height >= max_height: break
CapReached(attempts, h) == attempts >= attempt_cap \/ h >= max_height

\* while attempts < 4
LoopGuard(attempts) == attempts < loop_limit

\* the padding taken off without the max(0, ...)
CropTopUnclamped(final_bbox) ==
  IF final_bbox # NoBBox THEN final_bbox.top - vertical_padding ELSE 0

\* top = max(0, final_bbox[1] - vertical_padding) when final_bbox is set
CropTop(final_bbox) ==
  IF final_bbox # NoBBox THEN Max(0, final_bbox.top - vertical_padding) ELSE 0

\* bottom = min(img.height, final_bbox[3] + vertical_padding) when final_bbox is set
CropBottom(final_bbox, img_height) ==
  IF final_bbox # NoBBox THEN Min(img_height, final_bbox.bottom + vertical_padding)
  ELSE img_height

(* ---------------------------------------------------------------------- *)
(* State of one call                                                       *)
(* ---------------------------------------------------------------------- *)

NewCall(obj, lines, ticks, width, zoom) ==
  [ pc                |-> "idle",
    markdown_text     |-> obj,
    text_lines        |-> lines,
    code_blocks       |-> ticks,
    canvas_width      |-> width,
    zoom              |-> zoom,
    temp_img_name     |-> NoName,
    device_scale      |-> 2,
    post_scale_factor |-> 2,
    estimated_height  |-> 0,
    attempts          |-> 0,
    final_bbox        |-> NoBBox,
    shots             |-> << >>,   \* every capture requested: <<width, height>>
    probes            |-> << >>,   \* every image probed, with the height asked for
    exc               |-> None,    \* the exception raised inside the try block
    pending           |-> None,    \* what try/except leaves to the finally clause
    crop              |-> NoCrop,    \* the crop and the size of the encoded image
    outcome           |-> None ]   \* what the caller receives

Inputs ==
  { NewCall(o, l, t, w, z) :
      o \in TextObjs, l \in LineCounts, t \in 0..MaxTicks, w \in Widths, z \in Zooms }

At(c, where) == c \in callers /\ call[c].pc = where

\* an exception inside the try block: control goes to "except Exception as e"
Throw(c, e) == [call EXCEPT ![c].pc = "except", ![c].exc = e]

(* ---------------------------------------------------------------------- *)
(* render_markdown_to_image_bytes, step by step                            *)
(* ---------------------------------------------------------------------- *)

\* temp_img_name = f"temp_{os.getpid()}_{id(markdown_text)}.png"
Enter(c) ==
  /\ At(c, "idle")
  /\ call' = [call EXCEPT ![c].pc = "build",
                          ![c].temp_img_name = TempName(call[c].markdown_text)]
  /\ UNCHANGED <<callers, disk, dsf_supported, cleaner, cache, res, proc>>

\* markdown_to_html, the Html2Image set-up and the locals of the height loop;
\* markdown_to_html or the Html2Image constructor may raise
Build(c) ==
  /\ At(c, "build")
  /\ \/ call' = Throw(c, "BuildError")
     \/ call' = [call EXCEPT
           ![c].pc = "capture",
           ![c].device_scale = DeviceScale(call[c].zoom, dsf_supported),
           ![c].post_scale_factor = PostScale(call[c].zoom, dsf_supported),
           ![c].estimated_height = SeedHeight(call[c].text_lines, call[c].code_blocks),
           ![c].attempts = 0,
           ![c].final_bbox = NoBBox]
  /\ UNCHANGED <<callers, disk, dsf_supported, cleaner, cache, res, proc>>

\* capture_once(estimated_height): the renderer writes the screenshot under
\* temp_img_name, or returns no path, or returns a path without writing a file
Capture(c) ==
  LET w    == Max(1, call[c].canvas_width)
      h    == call[c].estimated_height
      name == call[c].temp_img_name
      shot == [call EXCEPT ![c].shots = Append(@, <<w, h>>)]
  IN
  /\ At(c, "capture")
  /\ \/ \E img \in Images(w, h, call[c].device_scale) :
          /\ disk' = [disk EXCEPT ![name] = img]
          /\ call' = [shot EXCEPT ![c].pc = "loop"]
     \/ /\ UNCHANGED disk         \* not image_paths
        /\ call' = [shot EXCEPT ![c].pc = "except", ![c].exc = "ValueError"]
     \/ /\ UNCHANGED disk         \* a path, and nothing written under it
        /\ call' = IF disk[name] = NoFile
                   THEN [shot EXCEPT ![c].pc = "except", ![c].exc = "ValueError"]
                   ELSE [shot EXCEPT ![c].pc = "loop"]
  /\ UNCHANGED <<callers, dsf_supported, cleaner, cache, res, proc>>

\* while attempts < 4
LoopHead(c) ==
  /\ At(c, "loop")
  /\ call' = [call EXCEPT ![c].pc = IF LoopGuard(call[c].attempts) THEN "probe" ELSE "post"]
  /\ UNCHANGED <<callers, disk, dsf_supported, cleaner, cache, res, proc>>

\* one pass of the loop body up to the next capture_once
Probe(c) ==
  LET name == call[c].temp_img_name
      img  == disk[name]
      n    == NextAttempts(call[c].attempts)
      h    == call[c].estimated_height
      seen == [call EXCEPT ![c].attempts = n,
                           ![c].final_bbox = img.bbox,
                           ![c].probes = Append(@, Probed(h, img))]
  IN
  /\ At(c, "probe")
  /\ IF img = NoFile
     THEN call' = [call EXCEPT ![c].pc = "except", ![c].exc = "FileNotFoundError",
                               ![c].attempts = n]
     ELSE IF ProbeStops(img) \/ CapReached(n, h)
     THEN call' = [seen EXCEPT ![c].pc = "post"]
     ELSE call' = [seen EXCEPT ![c].pc = "capture",
                               ![c].estimated_height = Grow(n, h)]
  /\ UNCHANGED <<callers, disk, dsf_supported, cleaner, cache, res, proc>>

\* with Image.open(image_file) as img: crop, resize, encode; PIL may raise
PostProcess(c) ==
  LET name == call[c].temp_img_name
      img  == disk[name]
      top  == CropTop(call[c].final_bbox)
      bot  == CropBottom(call[c].final_bbox, img.height)
      psf  == call[c].post_scale_factor
  IN
  /\ At(c, "post")
  /\ IF img = NoFile
     THEN call' = Throw(c, "FileNotFoundError")
     ELSE \/ call' = Throw(c, "ImageError")
          \/ call' = [call EXCEPT
                ![c].pc = "finally",
                ![c].pending = "bytes",
                ![c].crop = [ top |-> top, bottom |-> bot, img_height |-> img.height,
                              cropped |-> (top > 0 \/ bot < img.height),
                              width  |-> IF psf # 2 THEN Max(1, ScaledPx(img.width, psf))
                                         ELSE img.width,
                              height |-> IF psf # 2 THEN Max(1, ScaledPx(bot - top, psf))
                                         ELSE bot - top ]]
  /\ UNCHANGED <<callers, disk, dsf_supported, cleaner, cache, res, proc>>

\* except Exception as e: ... raise RuntimeError(error_msg) from e
Except(c) ==
  /\ At(c, "except")
  /\ call' = [call EXCEPT ![c].pc = "finally", ![c].pending = "RuntimeError"]
  /\ UNCHANGED <<callers, disk, dsf_supported, cleaner, cache, res, proc>>

\* finally: if temp_img_path.exists():
Finally(c) ==
  /\ At(c, "finally")
  /\ call' = IF disk[call[c].temp_img_name] = NoFile
             THEN [call EXCEPT ![c].pc = "done", ![c].outcome = call[c].pending]
             ELSE [call EXCEPT ![c].pc = "unlink"]
  /\ UNCHANGED <<callers, disk, dsf_supported, cleaner, cache, res, proc>>

\* the file removed after a successful render only
UnlinkOnSuccessOnly(c) ==
  LET name == call[c].temp_img_name IN
  /\ At(c, "unlink")
  /\ disk' = IF call[c].pending = "bytes" THEN [disk EXCEPT ![name] = NoFile] ELSE disk
  /\ call' = [call EXCEPT ![c].pc = "done", ![c].outcome = call[c].pending]
  /\ UNCHANGED <<callers, dsf_supported, cleaner, cache, res, proc>>

\* temp_img_path.unlink(): an exception raised here replaces what the call was
\* about to return or raise
Unlink(c) ==
  LET name == call[c].temp_img_name IN
  /\ At(c, "unlink")
  /\ IF disk[name] = NoFile
     THEN /\ call' = [call EXCEPT ![c].pc = "done", ![c].outcome = "FileNotFoundError"]
          /\ UNCHANGED disk
     ELSE \/ /\ disk' = [disk EXCEPT ![name] = NoFile]
             /\ call' = [call EXCEPT ![c].pc = "done", ![c].outcome = call[c].pending]
          \/ /\ UNCHANGED disk    \* the file is locked
             /\ call' = [call EXCEPT ![c].pc = "done", ![c].outcome = "PermissionError"]
  /\ UNCHANGED <<callers, dsf_supported, cleaner, cache, res, proc>>

Render(c) ==
  \/ Enter(c)
  \/ Build(c)
  \/ Capture(c)
  \/ LoopHead(c)
  \/ Probe(c)
  \/ PostProcess(c)
  \/ Except(c)
  \/ Finally(c)
  \/ Unlink(c)

(* ---------------------------------------------------------------------- *)
(* clean_up                                                                *)
(* ---------------------------------------------------------------------- *)

CleanerOff == [pc |-> "off", todo |-> {}, file |-> NoName]

\* TEMP_DIR.glob("temp_*.png")
CleanGlob ==
  /\ cleaner.pc = "idle"
  /\ cleaner' = [cleaner EXCEPT !.pc = "scan",
                                !.todo = { n \in Names : disk[n] # NoFile }]
  /\ UNCHANGED <<callers, call, disk, dsf_supported, cache, res, proc>>

\* for file_path in ...: if file_path.exists():
CleanExists ==
  /\ cleaner.pc = "scan"
  /\ IF cleaner.todo = {}
     THEN cleaner' = [cleaner EXCEPT !.pc = "done"]
     ELSE \E n \in cleaner.todo :
            cleaner' = [cleaner EXCEPT
                          !.todo = @ \ {n},
                          !.pc = IF disk[n] # NoFile THEN "unlink" ELSE "scan",
                          !.file = n]
  /\ UNCHANGED <<callers, call, disk, dsf_supported, cache, res, proc>>

\* try: file_path.unlink() except PermissionError: pass
CleanUnlink ==
  /\ cleaner.pc = "unlink"
  /\ IF disk[cleaner.file] = NoFile
     THEN /\ cleaner' = [cleaner EXCEPT !.pc = "FileNotFoundError"]
          /\ UNCHANGED disk
     ELSE \/ /\ disk' = [disk EXCEPT ![cleaner.file] = NoFile]
             /\ cleaner' = [cleaner EXCEPT !.pc = "scan"]
          \/ /\ UNCHANGED disk    \* PermissionError: pass
             /\ cleaner' = [cleaner EXCEPT !.pc = "scan"]
  /\ UNCHANGED <<callers, call, dsf_supported, cache, res, proc>>

clean_up ==
  \/ CleanGlob
  \/ CleanExists
  \/ CleanUnlink

(* ---------------------------------------------------------------------- *)
(* download_and_cache_image                                                *)
(* ---------------------------------------------------------------------- *)

\* URLs: the scheme, the text up to the last segment's extension, and the
\* extension ("" when the last segment has no ".")
Urls ==
  { [scheme |-> "https://", stem |-> "host/a", ext |-> "png"],
    [scheme |-> "https://", stem |-> "host/b", ext |-> ""],
    [scheme |-> "", stem |-> "img/c", ext |-> "png"] }

\* the src attributes of the img tags of a fragment: these, and an http:// URL
Srcs == Urls \cup { [scheme |-> "http://", stem |-> "host/d", ext |-> "gif"] }

\* url.startswith(("http://", "https://"))
HasScheme(url) == url.scheme \in {"http://", "https://"}

\* hashlib.md5(url.encode()).hexdigest(): one digest per URL string
UrlHash(url) == <<"md5", url.scheme, url.stem, url.ext>>

\* url.split(".")[-1] if "." in url.split("/")[-1] else "jpg"
FileExt(url) == IF url.ext # "" THEN url.ext ELSE "jpg"

\* IMAGE_CACHE_DIR / f"{url_hash}.{file_ext}"
CacheFile(url) == <<UrlHash(url), FileExt(url)>>

CacheFiles == { CacheFile(u) : u \in Srcs }

\* response.content, in the pieces the write reaches the file in
Body(url) == [k \in 1..NumChunks |-> <<url.stem, k>>]

\* what a call returns: the URL it was given, or cache_file.as_uri()
RetUrl(url) == [kind |-> "url", url |-> url]
RetFile(url) == [kind |-> "file", file |-> CacheFile(url)]

NoUrl == [scheme |-> "", stem |-> "", ext |-> ""]

\* e: what "except Exception as e" caught in the current call, None if nothing
NewResolver ==
  [pc |-> "idle", url |-> NoUrl, net |-> 0, written |-> 0, e |-> None, log |-> << >>]

\* a return of the call: logged with the network calls it made
Return(rs, r, ret) ==
  [rs EXCEPT ![r].pc = "idle",
             ![r].e = None,
             ![r].log = Append(@, [url |-> rs[r].url, ret |-> ret, net |-> rs[r].net,
                                   e |-> rs[r].e])]

\* the except clause: the exception is logged and the URL is returned
Caught(rs, r, exc) == Return([rs EXCEPT ![r].e = exc], r, RetUrl(rs[r].url))

\* the calls started so far, returned or not
Started(r) == Len(res[r].log) + (IF res[r].pc = "idle" THEN 0 ELSE 1)

RECURSIVE SumStarted(_)
SumStarted(rs) ==
  IF rs = {} THEN 0
  ELSE LET r == CHOOSE x \in rs : TRUE IN Started(r) + SumStarted(rs \ {r})

\* a call of download_and_cache_image(url)
Resolve(r) ==
  /\ res[r].pc = "idle"
  /\ SumStarted(Resolvers) < MaxResolves
  /\ \E u \in Urls :
       res' = [res EXCEPT ![r].pc = "check", ![r].url = u, ![r].net = 0,
                          ![r].written = 0, ![r].e = None]
  /\ UNCHANGED <<cache, callers, call, disk, dsf_supported, cleaner, proc>>

\* the download started without a look at the cache directory
CheckCacheNoLookup(r) ==
  LET u == res[r].url IN
  /\ res[r].pc = "check"
  /\ res' = IF ~HasScheme(u) THEN Return(res, r, RetUrl(u))
            ELSE [res EXCEPT ![r].pc = "fetch"]
  /\ UNCHANGED <<cache, callers, call, disk, dsf_supported, cleaner, proc>>

\* the scheme test, and "if cache_file.exists(): return cache_file.as_uri()"
CheckCache(r) ==
  LET u == res[r].url IN
  /\ res[r].pc = "check"
  /\ res' = IF ~HasScheme(u) THEN Return(res, r, RetUrl(u))
            ELSE IF cache[CacheFile(u)] # NoFile THEN Return(res, r, RetFile(u))
            ELSE [res EXCEPT ![r].pc = "fetch"]
  /\ UNCHANGED <<cache, callers, call, disk, dsf_supported, cleaner, proc>>

\* client.get(url); response.raise_for_status(): a failure is caught by
\* "except Exception" and the URL is returned
Fetch(r) ==
  LET sent == [res EXCEPT ![r].net = @ + 1] IN
  /\ res[r].pc = "fetch"
  /\ \/ res' = [sent EXCEPT ![r].pc = "open"]
     \/ res' = Caught(sent, r, "HTTPError")
  /\ UNCHANGED <<cache, callers, call, disk, dsf_supported, cleaner, proc>>

\* open(cache_file, "wb"): the file is created, or truncated, under its final
\* name; a failure is caught and the URL is returned
OpenFile(r) ==
  /\ res[r].pc = "open"
  /\ \/ /\ cache' = [cache EXCEPT ![CacheFile(res[r].url)] = [data |-> << >>]]
        /\ res' = [res EXCEPT ![r].pc = "write", ![r].written = 0]
     \/ /\ UNCHANGED cache
        /\ res' = Caught(res, r, "OSError")
  /\ UNCHANGED <<callers, call, disk, dsf_supported, cleaner, proc>>

\* the file after a write of chunk at position k of this writer's handle
WriteAt(content, k, chunk) ==
  [ i \in 1..Max(Len(content), k) |->
      IF i = k THEN chunk
      ELSE IF i <= Len(content) THEN content[i]
      ELSE <<"hole", i>> ]

\* f.write(response.content), piece by piece, then the close and the return;
\* a failed write is caught, the URL is returned and the file stays as it is
WriteChunk(r) ==
  LET u == res[r].url
      f == CacheFile(u)
      k == res[r].written + 1
  IN
  /\ res[r].pc = "write"
  /\ IF res[r].written = NumChunks
     THEN /\ res' = Return(res, r, RetFile(u))
          /\ UNCHANGED <<cache, callers, call, disk, dsf_supported, cleaner, proc>>
     ELSE \/ /\ cache' = [cache EXCEPT ![f] = [data |-> WriteAt(cache[f].data, k, Body(u)[k])]]
             /\ res' = [res EXCEPT ![r].written = k]
          \/ /\ UNCHANGED cache
             /\ res' = Caught(res, r, "OSError")
  /\ UNCHANGED <<callers, call, disk, dsf_supported, cleaner, proc>>

download_and_cache_image(r) ==
  \/ Resolve(r)
  \/ CheckCache(r)
  \/ Fetch(r)
  \/ OpenFile(r)
  \/ WriteChunk(r)

(* ---------------------------------------------------------------------- *)
(* process_images_in_html                                                  *)
(* ---------------------------------------------------------------------- *)

\* an <img ... src="..." ...> tag, as the text of its src attribute: a URL, or
\* the file URI that a resolved reference carries
ImgTag(src) == [tag |-> "img", src |-> src]

\* any other markup of the fragment
Markup == [tag |-> "p"]

Items == { ImgTag(RetUrl(u)) : u \in Srcs } \cup {Markup}

\* the HTML fragments passed in: sequences of markup and img tags
Fragments == UNION { [1..n -> Items] : n \in 0..MaxItems }

\* a match of img_pattern whose src starts with any URL scheme
IsRemote(item) ==
  /\ item.tag = "img"
  /\ item.src.kind = "url"
  /\ HasScheme(item.src.url)

\* a match of img_pattern with src_url.startswith("https://")
IsHttps(item) ==
  /\ item.tag = "img"
  /\ item.src.kind = "url"
  /\ item.src.url.scheme = "https://"

\* img_urls: the matches kept, in document order
ImgUrls(html) == SelectSeq(html, IsHttps)

\* img_urls[:max_images]
Limited(img_urls) == SubSeq(img_urls, 1, Min(Len(img_urls), max_images))

\* str.replace(old, new) on the fragment: every occurrence of the tag text
ReplaceAll(html, old, new) ==
  [i \in DOMAIN html |-> IF html[i] = old THEN new ELSE html[i]]

\* the thread that runs the pass and the downloads it calls
PassThread == 1

PassOff ==
  [pc |-> "off", html_content |-> << >>, limited_img_urls |-> << >>,
   local_uris |-> << >>, i |-> 0, processed_html |-> << >>]

NoPass == proc = PassOff

NewPass(html) == [PassOff EXCEPT !.pc = "scan", !.html_content = html]

\* re.finditer over the fragment, the https filter, "if not img_urls: return
\* html_content", and the cap
Scan ==
  /\ proc.pc = "scan"
  /\ LET img_urls == ImgUrls(proc.html_content) IN
     proc' = IF img_urls = << >>
             THEN [proc EXCEPT !.pc = "done", !.processed_html = proc.html_content]
             ELSE [proc EXCEPT !.pc = "download",
                               !.limited_img_urls = Limited(img_urls)]
  /\ UNCHANGED <<callers, call, disk, dsf_supported, cleaner, cache, res>>

\* one pass of "for _, src_url in limited_img_urls": the call of
\* download_and_cache_image(src_url); after the last one, processed_html =
\* html_content
CallDownload ==
  LET n == Len(proc.local_uris) + 1 IN
  /\ proc.pc = "download"
  /\ res[PassThread].pc = "idle"
  /\ IF n <= Len(proc.limited_img_urls)
     THEN /\ proc' = [proc EXCEPT !.pc = "wait"]
          /\ res' = [res EXCEPT ![PassThread].pc = "check",
                                ![PassThread].url = proc.limited_img_urls[n].src.url,
                                ![PassThread].net = 0,
                                ![PassThread].written = 0,
                                ![PassThread].e = None]
     ELSE /\ proc' = [proc EXCEPT !.pc = "replace",
                                  !.processed_html = proc.html_content]
          /\ UNCHANGED res
  /\ UNCHANGED <<callers, call, disk, dsf_supported, cleaner, cache>>

\* local_uris.append(local_uri) with what the call returned; the call catches
\* every exception itself, so the except branch of the loop is never taken
Collect ==
  LET log == res[PassThread].log IN
  /\ proc.pc = "wait"
  /\ res[PassThread].pc = "idle"
  /\ proc' = [proc EXCEPT !.pc = "download",
                          !.local_uris = Append(@, log[Len(log)].ret)]
  /\ UNCHANGED <<callers, call, disk, dsf_supported, cleaner, cache, res>>

\* one pass of the replacement loop:
\* processed_html.replace(img_tag, img_tag.replace(src_url, local_uri));
\* after the last one, the return
Replace ==
  LET i == proc.i + 1 IN
  /\ proc.pc = "replace"
  /\ proc' = IF i <= Len(proc.limited_img_urls)
             THEN [proc EXCEPT !.i = i,
                               !.processed_html =
                                  ReplaceAll(@, proc.limited_img_urls[i],
                                             ImgTag(proc.local_uris[i]))]
             ELSE [proc EXCEPT !.pc = "done"]
  /\ UNCHANGED <<callers, call, disk, dsf_supported, cleaner, cache, res>>

process_images_in_html ==
  \/ Scan
  \/ CallDownload
  \/ Collect
  \/ Replace

(* ---------------------------------------------------------------------- *)
(* Specifications                                                          *)
(* ---------------------------------------------------------------------- *)

Idle == NewCall(1, 1, 0, 800, 2)

NoCalls ==
  /\ callers = {}
  /\ call = [c \in Calls |-> Idle]
  /\ disk = [n \in Names |-> NoFile]
  /\ dsf_supported = FALSE
  /\ cleaner = CleanerOff

NoResolvers ==
  /\ cache = [f \in CacheFiles |-> NoFile]
  /\ res = [r \in Resolvers |-> NewResolver]

\* one render call, of any input
Init ==
  /\ callers = {1}
  /\ \E r \in Inputs :
       /\ r.markdown_text = 1
       /\ call = [c \in Calls |-> IF c = 1 THEN r ELSE Idle]
  /\ disk = [n \in Names |-> NoFile]
  /\ dsf_supported \in BOOLEAN
  /\ cleaner = CleanerOff
  /\ NoResolvers
  /\ NoPass

Next == \E c \in Calls : Render(c)

Spec == Init /\ [][Next]_vars

\* two concurrent render calls of one process; the text objects passed may be
\* one and the same
InitConc ==
  /\ callers = Calls
  /\ \E obj \in [Calls -> TextObjs], lines \in [TextObjs -> ConcLineCounts] :
       call = [c \in Calls |-> NewCall(obj[c], lines[obj[c]], 0, 800, 2)]
  /\ disk = [n \in Names |-> NoFile]
  /\ dsf_supported = FALSE
  /\ cleaner = CleanerOff
  /\ NoResolvers
  /\ NoPass

NextConc == \E c \in Calls : Render(c)

SpecConc == InitConc /\ [][NextConc]_vars

\* one render call and a clean_up running beside it
InitClean ==
  /\ callers = {1}
  /\ \E l \in ConcLineCounts : call = [c \in Calls |-> NewCall(1, l, 0, 800, 2)]
  /\ disk = [n \in Names |-> NoFile]
  /\ dsf_supported = FALSE
  /\ cleaner = [CleanerOff EXCEPT !.pc = "idle"]
  /\ NoResolvers
  /\ NoPass

NextClean ==
  \/ \E c \in Calls : Render(c)
  \/ clean_up

SpecClean == InitClean /\ [][NextClean]_vars

\* two threads resolving image URLs through the cache
InitCache ==
  /\ NoCalls
  /\ NoResolvers
  /\ NoPass

NextCache == \E r \in Resolvers : download_and_cache_image(r)

SpecCache == InitCache /\ [][NextCache]_vars

\* one pass of process_images_in_html over any fragment, the cache directory
\* empty at its start
InitImages ==
  /\ NoCalls
  /\ NoResolvers
  /\ \E html \in Fragments : proc = NewPass(html)

NextImages ==
  \/ process_images_in_html
  \/ CheckCache(PassThread)
  \/ Fetch(PassThread)
  \/ OpenFile(PassThread)
  \/ WriteChunk(PassThread)

SpecImages == InitImages /\ [][NextImages]_vars

(* ---------------------------------------------------------------------- *)
(* Properties of one render call                                           *)
(* ---------------------------------------------------------------------- *)

Returned(c) == c \in callers /\ call[c].pc = "done"

TempFileExists(c) == disk[call[c].temp_img_name] # NoFile

LastShot(c) == call[c].shots[Len(call[c].shots)]

\* the height loop is over and the last capture goes to the post-processor
ResolverDone(c) == c \in callers /\ call[c].pc = "post"

\* C1 as stated: once a call has returned, with bytes or with an error, its
\* temp screenshot file is not on disk.
C1_NoTempFileAfterReturn ==
  \A c \in Calls : Returned(c) => ~TempFileExists(c)

\* C1 amended: once a call has returned, its temp screenshot file is not on
\* disk unless the deletion itself failed, and then the caller got the
\* deletion's error.
C1_TempFileGoneUnlessUnlinkFailed ==
  \A c \in Calls :
    Returned(c) => (TempFileExists(c) <=> call[c].outcome = "PermissionError")

\* a call that failed after its second capture and left no file behind
C1_Witness ==
  \E c \in Calls :
    /\ Returned(c)
    /\ Len(call[c].shots) >= 2
    /\ call[c].outcome = "RuntimeError"
    /\ ~TempFileExists(c)

\* C2: every capture of a render call, the first one included, is requested
\* with a viewport height of at most max_height.
C2_CapturesWithinMaxHeight ==
  \A c \in Calls :
    \A i \in 1..Len(call[c].shots) : call[c].shots[i][2] <= max_height

\* the position of a call in its control flow, rising along every step
PcRank(pc) ==
  CASE pc = "idle"    -> 0
    [] pc = "build"   -> 1
    [] pc = "capture" -> 2
    [] pc = "loop"    -> 3
    [] pc = "probe"   -> 4
    [] pc = "post"    -> 5
    [] pc = "except"  -> 6
    [] pc = "finally" -> 7
    [] pc = "unlink"  -> 8
    [] pc = "done"    -> 9

\* a variant of the call: every step raises it, and it is bounded while the
\* attempts and the captures are
Progress(r) == 3 * (r.attempts + Len(r.shots)) + PcRank(r.pc)

\* C3: whatever the renderer produces, one render call performs at most
\* attempt_cap (6) captures, and it terminates: each step of the call raises
\* a variant that the cap bounds.
C3_AtMostSixCapturesAndTerminates ==
  /\ [](\A c \in Calls : /\ Len(call[c].shots) <= attempt_cap
                         /\ call[c].attempts <= attempt_cap)
  /\ [][\A c \in Calls :
          call'[c] # call[c] => Progress(call'[c]) > Progress(call[c])]_rvars

\* a call that went through the whole loop: five captures, the most it takes
C3_Witness ==
  \E c \in Calls : Returned(c) /\ Len(call[c].shots) = loop_limit + 1

\* C4: the caller receives the PNG bytes or the uniform RuntimeError, whatever
\* failed, the cleanup of the temp file included.
C4_BytesOrUniformError ==
  \A c \in Calls : Returned(c) => call[c].outcome \in {"bytes", "RuntimeError"}

\* C5: when the render failed and the temp file could not be deleted, the
\* caller still receives the rendering error.
C5_DeletionFailureDoesNotMask ==
  \A c \in Calls :
    (Returned(c) /\ call[c].pending = "RuntimeError" /\ TempFileExists(c))
      => call[c].outcome = "RuntimeError"

\* heights H of the stub of C9
StubHeights == {1000, 3000, 7000, 20000, 50000}

\* every probe saw content, and a margin above the threshold only when the
\* viewport asked for was at least H
VisibleOnlyFrom(c, H) ==
  \A i \in 1..Len(call[c].probes) :
    LET p == call[c].probes[i] IN
    p.found /\ (p.margin > margin_threshold => p.asked >= H)

\* every probed image is as high as the viewport asked for
UnscaledStub(c) ==
  \A i \in 1..Len(call[c].probes) : call[c].probes[i].height = call[c].probes[i].asked

FixedTightStub(c) ==
  \A i \in 1..Len(call[c].probes) :
    LET p == call[c].probes[i] IN
    /\ p.found
    /\ p.margin < margin_threshold
    /\ p.height = call[c].probes[1].height
    /\ p.margin = call[c].probes[1].margin

\* C10 as stated: with a fixed bounding box whose bottom margin is always
\* below the threshold, the resolver stops after exactly one capture.
C10_OneCaptureWhenMarginBelow ==
  \A c \in Calls :
    (ResolverDone(c) /\ FixedTightStub(c)) => Len(call[c].shots) = 1

\* every probe saw content with a margin above the threshold
LooseStub(c) ==
  /\ Len(call[c].probes) >= 1
  /\ \A i \in 1..Len(call[c].probes) :
       call[c].probes[i].found /\ call[c].probes[i].margin > margin_threshold

\* C10 amended: with a bottom margin that is always above the threshold, the
\* resolver stops after exactly one capture.
C10_OneCaptureWhenMarginAbove ==
  \A c \in Calls :
    LooseStub(c) =>
      /\ Len(call[c].shots) = 1
      /\ call[c].pc \notin {"capture", "loop", "probe"}

\* a call that returned bytes after one capture with a margin above the threshold
C10_Witness ==
  \E c \in Calls :
    /\ Returned(c)
    /\ LooseStub(c)
    /\ call[c].outcome = "bytes"
    /\ Len(call[c].shots) = 1

(* ---------------------------------------------------------------------- *)
(* Properties of the image cache                                           *)
(* ---------------------------------------------------------------------- *)

\* C6: every file visible under its final cache name holds the complete
\* response body, so whoever finds it to exist gets a complete file.
C6_VisibleCacheFileIsComplete ==
  \A u \in Urls :
    cache[CacheFile(u)] # NoFile => cache[CacheFile(u)].data = Body(u)

\* the pairs of calls a thread made of the same https:// URL, one after the other
Twice(r, i, j) ==
  /\ i \in 1..Len(res[r].log)
  /\ j \in 1..Len(res[r].log)
  /\ i < j
  /\ res[r].log[i].url = res[r].log[j].url
  /\ res[r].log[i].url.scheme = "https://"

\* C8 as stated: resolving the same https:// URL twice yields the same local
\* path both times, and the second resolution performs no network call.
C8_TwiceSamePathNoNetwork ==
  \A r \in Resolvers : \A i, j \in 1..MaxResolves :
    Twice(r, i, j) =>
      /\ res[r].log[i].ret = RetFile(res[r].log[i].url)
      /\ res[r].log[j].ret = res[r].log[i].ret
      /\ res[r].log[j].net = 0

\* C8 amended: when a resolution of an https:// URL returned the local cache
\* path, a later resolution of the same URL returns the same path and
\* performs no network call.
C8_TwiceSamePathOnceCached ==
  \A r \in Resolvers : \A i, j \in 1..MaxResolves :
    (Twice(r, i, j) /\ res[r].log[i].ret = RetFile(res[r].log[i].url)) =>
      /\ res[r].log[j].ret = res[r].log[i].ret
      /\ res[r].log[j].net = 0

\* a thread downloaded an image and then resolved the same URL from the cache
C8_Witness ==
  \E r \in Resolvers :
    /\ Twice(r, 1, 2)
    /\ res[r].log[1].net = 1
    /\ res[r].log[1].ret = RetFile(res[r].log[1].url)
    /\ res[r].log[2].ret = res[r].log[1].ret
    /\ res[r].log[2].net = 0

(* ---------------------------------------------------------------------- *)
(* Properties of concurrent render calls                                   *)
(* ---------------------------------------------------------------------- *)

InProgress(c) == c \in callers /\ call[c].pc \notin {"idle", "done"}

\* C7: two render calls in progress in the same process never use the same
\* temp screenshot file name.
C7_ConcurrentCallsUseDistinctNames ==
  \A c1, c2 \in Calls :
    (c1 # c2 /\ InProgress(c1) /\ InProgress(c2))
      => call[c1].temp_img_name # call[c2].temp_img_name

(* ---------------------------------------------------------------------- *)
(* Properties of process_images_in_html                                    *)
(* ---------------------------------------------------------------------- *)

PassDone == proc.pc = "done"

\* the places of the https image references in a fragment
HttpsPositions(html) == { i \in DOMAIN html : IsHttps(html[i]) }

\* the rank of the reference at place i among the https references, in
\* document order
RefIndex(html, i) == Cardinality({ j \in HttpsPositions(html) : j <= i })

\* the downloads the pass has made so far
PassLog == res[PassThread].log

\* the download for the n-th https reference was made and its fetch failed
FetchFailed(n) == n <= Len(PassLog) /\ PassLog[n].e = "HTTPError"

\* C11: a download whose fetch fails returns the URL it was given, and when
\* the pass is done every reference whose fetch failed still carries its URL.
C11_FailedFetchLeavesUrlInPlace ==
  /\ \A n \in DOMAIN PassLog :
       PassLog[n].e = "HTTPError" => PassLog[n].ret = RetUrl(PassLog[n].url)
  /\ PassDone =>
       \A i \in HttpsPositions(proc.html_content) :
         FetchFailed(RefIndex(proc.html_content, i)) =>
           proc.processed_html[i] = proc.html_content[i]

\* C12: a pass makes at most 3 downloads, and when it is done every https
\* reference after the third one in document order is as it was in the
\* fragment passed in.
C12_BeyondCapUnmodified ==
  /\ Len(PassLog) <= max_images
  /\ PassDone =>
       \A i \in HttpsPositions(proc.html_content) :
         RefIndex(proc.html_content, i) > max_images =>
           proc.processed_html[i] = proc.html_content[i]

\* no img tag of the fragment has a src that starts with https://
NoHttpsSrc(html) ==
  \A i \in DOMAIN html :
    html[i].tag = "img" => html[i].src.url.scheme # "https://"

\* C14: in a pass over a fragment without https image reference no download
\* is ever called and the cache directory stays as it was, and the fragment
\* returned is the fragment passed in.
C14_NoHttpsNoFetchNoWrite ==
  (proc.pc # "off" /\ NoHttpsSrc(proc.html_content)) =>
    /\ NoResolvers
    /\ PassDone => proc.processed_html = proc.html_content

\* a pass over a fragment with an http:// reference and a local one, and no
\* https:// reference, has returned
C14_Witness ==
  /\ PassDone
  /\ NoHttpsSrc(proc.html_content)
  /\ \E i, j \in DOMAIN proc.html_content :
       /\ IsRemote(proc.html_content[i])
       /\ proc.html_content[j].tag = "img"
       /\ ~HasScheme(proc.html_content[j].src.url)

(* ---------------------------------------------------------------------- *)
(* Properties of the post-processor and of the height loop                 *)
(* ---------------------------------------------------------------------- *)

\* C13: the crop bounds the post-processor computed satisfy
\* 0 <= top < bottom <= height of the image it cropped.
C13_CropBoundsWithinImage ==
  \A c \in Calls :
    call[c].crop # NoCrop =>
      /\ 0 <= call[c].crop.top
      /\ call[c].crop.top < call[c].crop.bottom
      /\ call[c].crop.bottom <= call[c].crop.img_height

\* a crop was made with a bounding box that touches the top edge
C13_Witness ==
  \E c \in Calls :
    /\ call[c].crop # NoCrop
    /\ call[c].final_bbox # NoBBox
    /\ call[c].final_bbox.top = 0
    /\ call[c].crop.cropped

\* C15: when the height loop is over, every capture taken was probed and
\* final_bbox is the bounding box of the image that goes to the post-processor.
C15_BBoxFromLastCapture ==
  \A c \in Calls :
    (ResolverDone(c) /\ TempFileExists(c)) =>
      /\ Len(call[c].probes) = Len(call[c].shots)
      /\ call[c].final_bbox = disk[call[c].temp_img_name].bbox

\* one of the four stop conditions holds for the n-th probe p: no bounding
\* box, bottom margin above 120, height at the hard maximum, 6 attempts made
StopCondition(p, n) ==
  \/ ~p.found
  \/ p.margin > margin_threshold
  \/ p.height >= max_height
  \/ p.asked >= max_height
  \/ n >= attempt_cap

\* C16: a capture follows the n-th probe only if no stop condition held for
\* it, and when the height loop is over a stop condition holds for the last
\* capture probed.
C16_StopsOnlyOnStopCondition ==
  \A c \in Calls :
    /\ \A n \in DOMAIN call[c].probes :
         Len(call[c].shots) > n => ~StopCondition(call[c].probes[n], n)
    /\ (ResolverDone(c) /\ call[c].probes # << >>) =>
         StopCondition(call[c].probes[Len(call[c].probes)], Len(call[c].probes))

\* C17: in the captures of one call, the second and the third capture have
\* twice the height of the capture before, every later one has 1.5 times the
\* height of the capture before, rounded down, each clamped to 50000.
C17_DoubleTwiceThenOneAndAHalf ==
  \A c \in Calls :
    \A k \in 2..Len(call[c].shots) :
      LET before == call[c].shots[k - 1][2]
          height == call[c].shots[k][2]
      IN  height = IF k - 1 <= 2 THEN Min(2 * before, max_height)
                   ELSE Min((3 * before) \div 2, max_height)

\* a run with four growth steps, none of them clamped
C17_Witness ==
  \E c \in Calls :
    /\ Len(call[c].shots) = 5
    /\ LastShot(c)[2] < max_height

\* C18: once the renderer is set up, a zoom other than 1.0 is either the
\* device scale (when supported, the post-scale factor staying 1.0) or the
\* post-scale factor (when unsupported, no device scale passed), a zoom of 1.0
\* sets neither; and the encoded image is the canvas width times the zoom wide.
C18_ZoomAppliedOnce ==
  \A c \in Calls :
    LET z   == call[c].zoom
        ds  == call[c].device_scale
        psf == call[c].post_scale_factor
    IN
    /\ call[c].shots # << >> =>
         /\ (z # 2 /\ dsf_supported) => (ds = z /\ psf = 2)
         /\ (z # 2 /\ ~dsf_supported) => (ds = 2 /\ psf = z)
         /\ z = 2 => (ds = 2 /\ psf = 2)
    /\ (call[c].crop # NoCrop /\ call[c].canvas_width > 1) =>
         call[c].crop.width = ScaledPx(call[c].canvas_width, z)

\* an image was encoded for a zoom of 2.0 that the renderer could not apply
C18_Witness ==
  \E c \in Calls :
    /\ call[c].crop # NoCrop
    /\ call[c].zoom = 4
    /\ ~dsf_supported
    /\ call[c].canvas_width > 1

\* C20: in the captures of one call every capture is taller than the one
\* before, and all captures have the width of the first.
C20_HeightsGrowWidthFixed ==
  \A c \in Calls :
    \A k \in 2..Len(call[c].shots) :
      /\ call[c].shots[k][2] > call[c].shots[k - 1][2]
      /\ call[c].shots[k][1] = call[c].shots[1][1]

\* a run that grew to the hard maximum
C20_Witness ==
  \E c \in Calls :
    /\ Len(call[c].shots) >= 2
    /\ LastShot(c)[2] = max_height
    /\ ResolverDone(c)

(* ---------------------------------------------------------------------- *)
(* Properties of clean_up beside a render call                             *)
(* ---------------------------------------------------------------------- *)

\* C19: while a render call is between a capture and the read of it, its temp
\* file is on disk, and no render call fails for a missing file.
C19_CleanUpSparesFileInUse ==
  \A c \in Calls :
    /\ (c \in callers /\ call[c].pc \in {"loop", "probe", "post"}) => TempFileExists(c)
    /\ call[c].exc # "FileNotFoundError"

====
